---- MODULE Spec2Model ----
(***************************************************************************)
(* Model of the course video-ordering core of the course-site backend:     *)
(* CourseRepository (AddVideoToCourse, ReorderVideos,                      *)
(* RemoveVideoFromCourse, GetVideosInOrder), the course and video          *)
(* collections they read and write, and the handler that serves a course   *)
(* with its ordered videos.                                                *)
(*                                                                         *)
(* The document store is modelled as reliable: driver errors (the          *)
(* `err != nil` returns of FindOne/UpdateOne/InsertOne) are not modelled.  *)
(***************************************************************************)
EXTENDS Integers, Sequences, FiniteSets, Bags, TLC

\* ---------------------------------------------------------------- bounds
\* number of distinct video identifiers
NumVideos == 2
\* longest video_order the model lets a course grow to
MaxLen == 3
\* payment documents stored, subscription documents stored
MaxPayments == 2
MaxSubscriptions == 1
\* subscription documents stored where one user holds several
MaxUserSubscriptions == 2
\* one-time passwords stored for one email
MaxOtps == 2

VideoIds == 1..NumVideos
CourseIds == {"c1"}

\* positions a request may carry: one below and one above the valid range
Positions == (0 - 1)..(MaxLen + 1)

RECURSIVE SeqsUpTo(_, _)
SeqsUpTo(S, n) ==
    IF n = 0 THEN {<<>>}
    ELSE LET shorter == SeqsUpTo(S, n - 1)
         IN  shorter \cup {Append(s, x) : s \in {t \in shorter : Len(t) = n - 1}, x \in S}

\* the video_order arrays a reorder request may carry
Orders == SeqsUpTo(VideoIds, MaxLen)

\* ---------------------------------------------------------------- errors
ErrCourseNotFound == "course not found"
ErrInvalidPosition == "invalid position"
ErrInvalidVideoID == "invalid video ID in new order"
ErrNoVideos == "Course not having any videos"
ErrVideoNotFound == "video not found"
NoErr == "nil"

\* ---------------------------------------------------------------- state
VARIABLES
    courses,   \* the courses collection: course id -> stored document
    videos,    \* the videos collection: ids of the stored video documents
    lastOp,    \* the last call made: its inputs, what it read and returned
    calls,     \* requests in flight: per request its inputs, what it read
               \* and what it is about to write
    scenario,  \* how far the calls made so far follow the scripted scenario
    users,     \* the users collection: user id -> stored document
    payments,  \* the payments collection: a bag of payment documents
    subscriptions, \* the subscriptions collection, in insertion order
    lastEvent, \* the last webhook delivery or account request, its response
    otps,      \* the otps collection: email -> its documents, oldest first
    verifying, \* HandleVerifyOTP requests in flight
    tokens     \* the claims of the tokens HandleLogin has issued

vars == <<courses, videos, lastOp, calls, scenario,
          users, payments, subscriptions, lastEvent, otps, verifying, tokens>>

\* the billing and account state
payVars == <<users, payments, subscriptions, lastEvent, otps, verifying, tokens>>

\* the state outside the sequential course operations
otherVars == <<calls, scenario, payVars>>

\* A Go slice of ObjectIDs: nil, or a (possibly empty) array.
Slice(s) == [isNil |-> FALSE, elems |-> s]
NilSlice == [isNil |-> TRUE, elems |-> <<>>]

\* bson encoding of a []primitive.ObjectID field: a nil slice is written as
\* null, any other slice as an array.
EncodeOrder(sl) == IF sl.isNil THEN [isNull |-> TRUE, arr |-> <<>>]
                   ELSE [isNull |-> FALSE, arr |-> sl.elems]

\* bson decoding into Course.VideoOrder: null decodes to a nil slice.
DecodeOrder(f) == IF f.isNull THEN NilSlice ELSE Slice(f.arr)

\* models.Course, reduced to the video order and one metadata field
NewCourseDoc == [video_order |-> EncodeOrder(Slice(<<>>)), title |-> "t0"]

\* CourseRepository.GetByID: the decoded course, or nil when no document
CourseExists(c) == c \in DOMAIN courses
GetByID(c) == [VideoOrder |-> DecodeOrder(courses[c].video_order)]

\* the video_order of course c as the program reads it (len, range)
OrderOf(c) == GetByID(c).VideoOrder.elems

\* VideoRepository.GetByID: the stored video, or nil
VideoExists(v) == v \in videos
VideoDoc(v) == [id |-> v]

\* ---------------------------------------------------------------- helpers
Range(s) == {s[i] : i \in 1..Len(s)}

Count(s, v) == Cardinality({i \in 1..Len(s) : s[i] = v})

\* s without its i-th element (1-based)
DropAt(s, i) == SubSeq(s, 1, i - 1) \o SubSeq(s, i + 1, Len(s))

\* lastOp before any call; before/beforeDoc are the decoded and the stored
\* video_order the call read, wrote tells whether it issued an UpdateOne
NoOp == [op |-> "none", course |-> "c1", video |-> 0, position |-> 0,
         newOrder |-> <<>>, err |-> NoErr, before |-> <<>>,
         beforeDoc |-> EncodeOrder(Slice(<<>>)), existed |-> FALSE,
         wrote |-> FALSE, result |-> <<>>]

\* no request in flight
Procs == {"p1", "p2"}
IdleCall == [pc |-> "idle", op |-> "none", course |-> "c1", video |-> 0,
             position |-> 0, newOrder |-> <<>>, title |-> "t0", err |-> NoErr,
             read |-> <<>>, order |-> NilSlice, stale |-> FALSE, wrote |-> FALSE,
             docBefore |-> EncodeOrder(Slice(<<>>)),
             docAfter |-> EncodeOrder(Slice(<<>>))]
NoCalls == [p \in Procs |-> IdleCall]

\* the scenario monitor: not started, or abandoned
ScenarioStart == 0
ScenarioOff == 0 - 1

\* ------------------------------------------------------- billing documents
UserIds == {"u1", "u2"}
ProductIds == {"prod1"}

\* the email each user registers with
EmailOf == [u \in UserIds |-> IF u = "u1" THEN "u1@example.com"
                                          ELSE "u2@example.com"]
Emails == {EmailOf[u] : u \in UserIds}

\* models.Subscription with every field at its Go zero value. Times are
\* seconds since the epoch, 0 for the zero time and for a nil *time.Time;
\* ids are "" when unset. nulls is empty in a Go value; in a stored
\* document it names the fields stored as BSON null, which read back as
\* the zero value.
ZeroSubscription ==
    [user_id |-> "", product_id |-> "", status |-> "", plan |-> "",
     current_period_end |-> 0, cancel_at_period_end |-> FALSE,
     payment_method_id |-> "", customer_id |-> "", subscription_id |-> "",
     last_payment_status |-> "", last_payment_date |-> 0,
     next_billing_date |-> 0, auto_renew |-> FALSE, nulls |-> {}]

\* the user document HandleRegister stores, before the request's email and
\* name are filled in: the embedded subscription is the zero value;
\* updated_at records which call stamped it last
NewUserDoc == [subscription |-> ZeroSubscription, updated_at |-> "Create",
               email |-> "", name |-> "", role |-> "user",
               is_verified |-> FALSE, blocked |-> FALSE]

\* a HandleVerifyOTP request that has not started
IdleVerify == [pc |-> "idle", email |-> "", code |-> "", otp |-> 0,
               user |-> "", doc |-> <<>>, response |-> "none"]
Idle ==
    [type |-> "none", user_id |-> <<>>, response |-> "none", sub |-> 0]

\* a webhook event with every field of its payload absent
NoEvent == [type |-> "none", user_id |-> <<>>, id |-> "", amount |-> 0,
            currency |-> "", status |-> "", items |-> <<>>,
            current_period_end |-> 0]

\* no user registered, nothing paid, nothing subscribed
NoBilling ==
    /\ users = [u \in {} |-> NewUserDoc]
    /\ payments = EmptyBag
    /\ subscriptions = <<>>
    /\ lastEvent = Idle
    /\ otps = [m \in Emails |-> <<>>]
    /\ verifying = [p \in Procs |-> IdleVerify]
    /\ tokens = {}

Init ==
    /\ courses = [c \in {} |-> NewCourseDoc]
    /\ videos = {}
    /\ lastOp = NoOp
    /\ calls = NoCalls
    /\ scenario = ScenarioOff
    /\ NoBilling

\* ------------------------------------------------- pure steps of the code
Failed(e) == [err |-> e, write |-> FALSE, order |-> NilSlice]
Written(sl) == [err |-> NoErr, write |-> TRUE, order |-> sl]

\* AddVideoToCourse: the position check
ValidPosition(currentOrder, position) ==
    ~(position < 0 \/ position > Len(currentOrder))

\* InsertedOrder with the position ignored: the id is appended
InsertedOrderAppend(currentOrder, videoID, position) ==
    Append(currentOrder, videoID)

\* AddVideoToCourse: newOrder := make(len+1); copy(newOrder[:position],
\* currentOrder[:position]); newOrder[position] = videoID;
\* copy(newOrder[position+1:], currentOrder[position:])
InsertedOrder(currentOrder, videoID, position) ==
    [i \in 1..(Len(currentOrder) + 1) |->
        IF i - 1 < position THEN currentOrder[i]
        ELSE IF i - 1 = position THEN videoID
        ELSE currentOrder[i - 1]]

\* AddVideoResult with the position clamped into range instead of rejected
AddVideoResultClamp(currentOrder, videoID, position) ==
    LET p == IF position < 0 THEN 0
             ELSE IF position > Len(currentOrder) THEN Len(currentOrder)
             ELSE position
    IN  Written(Slice(InsertedOrder(currentOrder, videoID, p)))

\* AddVideoToCourse once the course is read: reject the position or write
AddVideoResult(currentOrder, videoID, position) ==
    IF ~ValidPosition(currentOrder, position)
    THEN Failed(ErrInvalidPosition)
    ELSE Written(Slice(InsertedOrder(currentOrder, videoID, position)))

\* AllInCurrentOrder as a full-permutation check: same ids and same length
AllInCurrentOrderPermutation(currentOrder, newOrder) ==
    /\ \A i \in 1..Len(newOrder) : newOrder[i] \in Range(currentOrder)
    /\ Len(newOrder) = Len(currentOrder)

\* ReorderVideos: videoMap holds the ids of currentOrder; every id of
\* newOrder has to be in it
AllInCurrentOrder(currentOrder, newOrder) ==
    \A i \in 1..Len(newOrder) : newOrder[i] \in Range(currentOrder)

\* ReorderResult that writes the known ids of newOrder and drops the others
ReorderResultFiltered(currentOrder, newOrder) ==
    Written(Slice(SelectSeq(newOrder, LAMBDA v : v \in Range(currentOrder))))

\* ReorderVideos once the course is read
ReorderResult(currentOrder, newOrder) ==
    IF ~AllInCurrentOrder(currentOrder, newOrder)
    THEN Failed(ErrInvalidVideoID)
    ELSE Written(Slice(newOrder))

\* RemovedOrder with || for && in the single-element test
RemovedOrderOr(currentOrder, videoID) ==
    IF Len(currentOrder) = 1 \/ currentOrder[1] = videoID
    THEN NilSlice
    ELSE Slice(SelectSeq(currentOrder, LAMBDA v : v # videoID))

\* RemovedOrder that cuts the list at the first match
RemovedOrderTruncate(currentOrder, videoID) ==
    IF \E i \in 1..Len(currentOrder) : currentOrder[i] = videoID
    THEN LET first == CHOOSE i \in 1..Len(currentOrder) :
                          /\ currentOrder[i] = videoID
                          /\ \A j \in 1..(i - 1) : currentOrder[j] # videoID
         IN  Slice(SubSeq(currentOrder, 1, first - 1))
    ELSE Slice(currentOrder)

\* RemoveVideoFromCourse: the slice written back for a non-empty currentOrder
RemovedOrder(currentOrder, videoID) ==
    IF Len(currentOrder) = 1 /\ currentOrder[1] = videoID
    THEN NilSlice
    ELSE Slice(SelectSeq(currentOrder, LAMBDA v : v # videoID))

\* RemoveResult without the empty-list check
RemoveResultNoEmptyCheck(currentOrder, videoID) ==
    Written(RemovedOrder(currentOrder, videoID))

\* RemoveVideoFromCourse once the course is read
RemoveResult(currentOrder, videoID) ==
    IF Len(currentOrder) = 0
    THEN Failed(ErrNoVideos)
    ELSE Written(RemovedOrder(currentOrder, videoID))

\* LookupFrom that skips an id that does not resolve
RECURSIVE LookupFromSkip(_, _, _)
LookupFromSkip(videoOrder, i, acc) ==
    IF i > Len(videoOrder) THEN [err |-> NoErr, videos |-> acc]
    ELSE IF ~VideoExists(videoOrder[i]) THEN LookupFromSkip(videoOrder, i + 1, acc)
    ELSE LookupFromSkip(videoOrder, i + 1, Append(acc, VideoDoc(videoOrder[i])))

\* GetVideosInOrder: the loop of point lookups. The first id that does not
\* resolve ends the call with an error and no videos.
RECURSIVE LookupFrom(_, _, _)
LookupFrom(videoOrder, i, acc) ==
    IF i > Len(videoOrder) THEN [err |-> NoErr, videos |-> acc]
    ELSE IF ~VideoExists(videoOrder[i]) THEN [err |-> ErrVideoNotFound, videos |-> <<>>]
    ELSE LookupFrom(videoOrder, i + 1, Append(acc, VideoDoc(videoOrder[i])))

\* VideosInOrder as one find over the ids: the videos come back in the
\* store's id order, each once
VideosInOrderByFind(videoOrder) ==
    IF \E i \in 1..Len(videoOrder) : ~VideoExists(videoOrder[i])
    THEN [err |-> ErrVideoNotFound, videos |-> <<>>]
    ELSE LET ids == SelectSeq([i \in 1..NumVideos |-> i],
                              LAMBDA v : v \in Range(videoOrder))
         IN  [err |-> NoErr, videos |-> [i \in 1..Len(ids) |-> VideoDoc(ids[i])]]

\* GetVideosInOrder once the course is read
VideosInOrder(videoOrder) ==
    IF Len(videoOrder) = 0 THEN [err |-> NoErr, videos |-> <<>>]
    ELSE LookupFrom(videoOrder, 1, <<>>)

\* UpdateOne({_id: c}, {$set: {video_order: sl}})
SetVideoOrder(c, sl) ==
    [courses EXCEPT ![c] = [@ EXCEPT !.video_order = EncodeOrder(sl)]]

\* ---------------------------------------------------------------- actions
\* CourseRepository.Create: InsertOne of a course with an empty video order
CreateCourse(c) ==
    /\ ~CourseExists(c)
    /\ courses' = [x \in DOMAIN courses \cup {c} |->
                      IF x = c THEN NewCourseDoc ELSE courses[x]]
    /\ lastOp' = [NoOp EXCEPT !.op = "CreateCourse", !.course = c, !.wrote = TRUE]
    /\ UNCHANGED videos

\* CourseRepository.Delete: DeleteOne, a no-op on an unknown id
DeleteCourse(c) ==
    /\ courses' = [x \in DOMAIN courses \ {c} |-> courses[x]]
    /\ lastOp' = [NoOp EXCEPT !.op = "DeleteCourse", !.course = c,
                              !.existed = CourseExists(c)]
    /\ UNCHANGED videos

\* HandleCreateVideo / VideoRepository.Create: the store picks an unused id
CreateVideo(v) ==
    /\ ~VideoExists(v)
    /\ videos' = videos \cup {v}
    /\ lastOp' = [NoOp EXCEPT !.op = "CreateVideo", !.video = v]
    /\ UNCHANGED courses

\* HandleDeleteVideo / VideoRepository.Delete: DeleteOne on the videos
\* collection only
DeleteVideo(v) ==
    /\ videos' = videos \ {v}
    /\ lastOp' = [NoOp EXCEPT !.op = "DeleteVideo", !.video = v]
    /\ UNCHANGED courses

\* Mutate that returns the nil err of GetByID when there is no document
MutateNilErr(call, c, r) ==
    IF ~CourseExists(c)
    THEN /\ lastOp' = [call EXCEPT !.err = NoErr]
         /\ UNCHANGED <<courses, videos>>
    ELSE /\ lastOp' = [call EXCEPT !.existed = TRUE, !.before = OrderOf(c),
                                   !.beforeDoc = courses[c].video_order,
                                   !.err = r.err, !.wrote = r.write]
         /\ courses' = IF r.write THEN SetVideoOrder(c, r.order) ELSE courses
         /\ UNCHANGED videos

\* The shared shape of the three mutations: GetByID, "course not found" when
\* there is no document, otherwise the computed result r is returned and,
\* when it says so, written with one UpdateOne.
Mutate(call, c, r) ==
    IF ~CourseExists(c)
    THEN /\ lastOp' = [call EXCEPT !.err = ErrCourseNotFound]
         /\ UNCHANGED <<courses, videos>>
    ELSE /\ lastOp' = [call EXCEPT !.existed = TRUE, !.before = OrderOf(c),
                                   !.beforeDoc = courses[c].video_order,
                                   !.err = r.err, !.wrote = r.write]
         /\ courses' = IF r.write THEN SetVideoOrder(c, r.order) ELSE courses
         /\ UNCHANGED videos

\* CourseRepository.AddVideoToCourse
AddVideoToCourse(c, videoID, position) ==
    /\ CourseExists(c) /\ AddVideoResult(OrderOf(c), videoID, position).write
          => Len(OrderOf(c)) < MaxLen
    /\ Mutate([NoOp EXCEPT !.op = "AddVideoToCourse", !.course = c,
                           !.video = videoID, !.position = position],
              c, AddVideoResult(OrderOf(c), videoID, position))

\* CourseRepository.ReorderVideos
ReorderVideos(c, newOrder) ==
    Mutate([NoOp EXCEPT !.op = "ReorderVideos", !.course = c,
                        !.newOrder = newOrder],
           c, ReorderResult(OrderOf(c), newOrder))

\* CourseRepository.RemoveVideoFromCourse
RemoveVideoFromCourse(c, videoID) ==
    Mutate([NoOp EXCEPT !.op = "RemoveVideoFromCourse", !.course = c,
                        !.video = videoID],
           c, RemoveResult(OrderOf(c), videoID))

\* CourseRepository.GetVideosInOrder
GetVideosInOrder(c) ==
    LET call == [NoOp EXCEPT !.op = "GetVideosInOrder", !.course = c]
    IN
    /\ UNCHANGED <<courses, videos>>
    /\ IF ~CourseExists(c)
       THEN lastOp' = [call EXCEPT !.err = ErrCourseNotFound]
       ELSE LET r == VideosInOrder(OrderOf(c))
            IN  lastOp' = [call EXCEPT !.existed = TRUE, !.before = OrderOf(c),
                                       !.beforeDoc = courses[c].video_order,
                                       !.err = r.err, !.result = r.videos]

\* HandleGetCourse: GetByID, then GetVideosInOrder; any error of the second
\* call becomes a 500 without videos
HandleGetCourse(c) ==
    LET call == [NoOp EXCEPT !.op = "HandleGetCourse", !.course = c]
    IN
    /\ UNCHANGED <<courses, videos>>
    /\ IF ~CourseExists(c)
       THEN lastOp' = [call EXCEPT !.err = "404"]
       ELSE LET r == VideosInOrder(OrderOf(c))
            IN  lastOp' = [call EXCEPT !.existed = TRUE, !.before = OrderOf(c),
                                       !.beforeDoc = courses[c].video_order,
                                       !.err = IF r.err = NoErr THEN "200" ELSE "500",
                                       !.result = r.videos]

Next ==
    \/ (\E c \in CourseIds : CreateCourse(c)) /\ UNCHANGED otherVars
    \/ (\E c \in CourseIds : DeleteCourse(c)) /\ UNCHANGED otherVars
    \/ (\E v \in VideoIds : CreateVideo(v)) /\ UNCHANGED otherVars
    \/ (\E v \in VideoIds : DeleteVideo(v)) /\ UNCHANGED otherVars
    \/ (\E c \in CourseIds, v \in VideoIds, p \in Positions :
            AddVideoToCourse(c, v, p)) /\ UNCHANGED otherVars
    \/ (\E c \in CourseIds, o \in Orders : ReorderVideos(c, o))
          /\ UNCHANGED otherVars
    \/ (\E c \in CourseIds, v \in VideoIds : RemoveVideoFromCourse(c, v))
          /\ UNCHANGED otherVars
    \/ (\E c \in CourseIds : GetVideosInOrder(c)) /\ UNCHANGED otherVars
    \/ (\E c \in CourseIds : HandleGetCourse(c)) /\ UNCHANGED otherVars

Spec == Init /\ [][Next]_vars

\* ---------------------------------------------------- concurrent requests
\* Two requests on the same course run at the same time. Each is the code of
\* its function cut at its two store calls: the GetByID that reads the
\* course, and the UpdateOne that writes what was computed from that read.
\* Nothing in the code orders the store calls of different requests.
ConcOrders == SeqsUpTo(VideoIds, 2)
Titles == {"t1", "t2"}

\* the requests a client can send
AddRequests ==
    {[IdleCall EXCEPT !.op = "AddVideoToCourse", !.course = c, !.video = v,
                      !.position = p] :
        c \in CourseIds, v \in VideoIds, p \in Positions}
ReorderRequests ==
    {[IdleCall EXCEPT !.op = "ReorderVideos", !.course = c, !.newOrder = o] :
        c \in CourseIds, o \in ConcOrders}
RemoveRequests ==
    {[IdleCall EXCEPT !.op = "RemoveVideoFromCourse", !.course = c, !.video = v] :
        c \in CourseIds, v \in VideoIds}
UpdateRequests ==
    {[IdleCall EXCEPT !.op = "UpdateCourse", !.course = c, !.title = t] :
        c \in CourseIds, t \in Titles}

\* what a request computes from the course it read. HandleUpdateCourse keeps
\* the VideoOrder of the course it read and CourseRepository.Update writes
\* it back with the other fields.
Computed(req, course) ==
    CASE req.op = "AddVideoToCourse" ->
            AddVideoResult(course.VideoOrder.elems, req.video, req.position)
      [] req.op = "ReorderVideos" ->
            ReorderResult(course.VideoOrder.elems, req.newOrder)
      [] req.op = "RemoveVideoFromCourse" ->
            RemoveResult(course.VideoOrder.elems, req.video)
      [] req.op = "UpdateCourse" -> Written(course.VideoOrder)

\* the first half of a request: GetByID and the computation in memory
ConcRead(p, req) ==
    /\ calls[p].pc = "idle"
    /\ IF ~CourseExists(req.course)
       THEN calls' = [calls EXCEPT ![p] =
                        [req EXCEPT !.pc = "done", !.err = ErrCourseNotFound]]
       ELSE LET course == GetByID(req.course)
                r == Computed(req, course)
            IN  /\ (req.op = "AddVideoToCourse" /\ r.write)
                      => Len(course.VideoOrder.elems) < MaxLen
                /\ calls' = [calls EXCEPT ![p] =
                      [req EXCEPT !.pc = IF r.write THEN "read" ELSE "done",
                                  !.err = r.err,
                                  !.read = course.VideoOrder.elems,
                                  !.order = r.order]]
    /\ UNCHANGED <<courses, videos, lastOp, scenario, payVars>>

\* WriteBack with an optimistic check: a request whose read is stale does
\* not write
WriteBackIfFresh(call) ==
    IF ~CourseExists(call.course) \/ call.stale THEN courses
    ELSE IF call.op = "UpdateCourse"
    THEN [courses EXCEPT ![call.course] =
            [video_order |-> EncodeOrder(call.order), title |-> call.title]]
    ELSE SetVideoOrder(call.course, call.order)

\* the UpdateOne of a request: $set of video_order for the three mutations,
\* of every updatable field, video_order included, for CourseRepository.Update;
\* it matches nothing when the course is gone
WriteBack(call) ==
    IF ~CourseExists(call.course) THEN courses
    ELSE IF call.op = "UpdateCourse"
    THEN [courses EXCEPT ![call.course] =
            [video_order |-> EncodeOrder(call.order), title |-> call.title]]
    ELSE SetVideoOrder(call.course, call.order)

\* the second half of a request: the UpdateOne, then the nil return. Every
\* other request that has read and not yet written now holds a stale read.
ConcWrite(p) ==
    /\ calls[p].pc = "read"
    /\ courses' = WriteBack(calls[p])
    /\ calls' = [q \in Procs |->
          IF q = p
          THEN [calls[p] EXCEPT !.pc = "done", !.err = NoErr, !.wrote = TRUE,
                   !.docBefore = courses[calls[p].course].video_order,
                   !.docAfter = courses'[calls[p].course].video_order]
          ELSE IF calls[q].pc = "read" /\ calls[q].course = calls[p].course
          THEN [calls[q] EXCEPT !.stale = TRUE]
          ELSE calls[q]]
    /\ UNCHANGED <<videos, lastOp, scenario, payVars>>

InitConc ==
    /\ \E o \in ConcOrders :
          courses = [c \in CourseIds |->
                        [NewCourseDoc EXCEPT !.video_order = EncodeOrder(Slice(o))]]
    /\ videos = {}
    /\ lastOp = NoOp
    /\ calls = NoCalls
    /\ scenario = ScenarioOff
    /\ NoBilling

NextConc ==
    \/ \E p \in Procs, req \in AddRequests : ConcRead(p, req)
    \/ \E p \in Procs, req \in ReorderRequests : ConcRead(p, req)
    \/ \E p \in Procs, req \in RemoveRequests : ConcRead(p, req)
    \/ \E p \in Procs, req \in UpdateRequests : ConcRead(p, req)
    \/ \E p \in Procs : ConcWrite(p)

SpecConc == InitConc /\ [][NextConc]_vars

\* ------------------------------------------------------ scripted scenario
\* The course starts with two videos; calls are made one after the other,
\* with ids and orders that include the ones of the scenario. The monitor
\* counts how many calls of the script have been made, in order, since the
\* start; any other call abandons the script.
ScenarioIds == 1..4
ScenarioPositions == 0..3
ScenarioOrders == SeqsUpTo(ScenarioIds, 2)

\* A = 1, B = 2, C = 3, Z = 4: InsertAt(C, 1), Remove(A), Reorder([B, C]),
\* Reorder([B, Z])
ScenarioScript ==
    << [op |-> "AddVideoToCourse", video |-> 3, position |-> 1, newOrder |-> <<>>],
       [op |-> "RemoveVideoFromCourse", video |-> 1, position |-> 0, newOrder |-> <<>>],
       [op |-> "ReorderVideos", video |-> 0, position |-> 0, newOrder |-> <<2, 3>>],
       [op |-> "ReorderVideos", video |-> 0, position |-> 0, newOrder |-> <<2, 4>>] >>

CallOf(l) == [op |-> l.op, video |-> l.video, position |-> l.position,
              newOrder |-> l.newOrder]

Follows(k, l) ==
    IF k # ScenarioOff /\ k < Len(ScenarioScript) /\ CallOf(l) = ScenarioScript[k + 1]
    THEN k + 1
    ELSE ScenarioOff

InitScenario ==
    /\ courses = [c \in CourseIds |->
                     [NewCourseDoc EXCEPT !.video_order = EncodeOrder(Slice(<<1, 2>>))]]
    /\ videos = {}
    /\ lastOp = NoOp
    /\ calls = NoCalls
    /\ scenario = ScenarioStart
    /\ NoBilling

ScenarioAdd ==
    /\ \E c \in CourseIds, v \in ScenarioIds, p \in ScenarioPositions :
          AddVideoToCourse(c, v, p)
    /\ scenario' = Follows(scenario, lastOp')
    /\ UNCHANGED <<calls, payVars>>

ScenarioRemove ==
    /\ \E c \in CourseIds, v \in ScenarioIds : RemoveVideoFromCourse(c, v)
    /\ scenario' = Follows(scenario, lastOp')
    /\ UNCHANGED <<calls, payVars>>

ScenarioReorder ==
    /\ \E c \in CourseIds, o \in ScenarioOrders : ReorderVideos(c, o)
    /\ scenario' = Follows(scenario, lastOp')
    /\ UNCHANGED <<calls, payVars>>

NextScenario ==
    \/ ScenarioAdd
    \/ ScenarioRemove
    \/ ScenarioReorder

SpecScenario == InitScenario /\ [][NextScenario]_vars

\* ---------------------------------------------------------------- billing
\* What the payment provider sends. The customer metadata carries the user
\* id as a hex string under "user_id"; a missing key reads as "".
HexOf(u) == <<"hex", u>>
MissingKey == <<>>
Metadata == {HexOf(u) : u \in UserIds} \cup {MissingKey, <<"zz">>}
ProviderStatuses == {"active", "past_due"}
PaymentMethods == {"pm_1"}

\* the checkout sessions of the provider: each has its id, its customer and
\* its total
Sessions ==
    {[NoEvent EXCEPT !.id = "cs_1", !.user_id = HexOf("u1"), !.amount = 500,
                     !.currency = "usd"],
     [NoEvent EXCEPT !.id = "cs_2", !.user_id = HexOf("u2"), !.amount = 1999,
                     !.currency = "eur"],
     [NoEvent EXCEPT !.id = "cs_3", !.user_id = MissingKey, !.amount = 500,
                     !.currency = "usd"],
     [NoEvent EXCEPT !.id = "cs_4", !.user_id = <<"zz">>, !.amount = 1999,
                     !.currency = "usd"]}

\* the billing of a provider subscription: its items (one price with its
\* recurring interval, or none) and the end of its current period
Billings ==
    {[items |-> <<>>, current_period_end |-> 1],
     [items |-> <<"month">>, current_period_end |-> 1],
     [items |-> <<"year">>, current_period_end |-> 2]}

CheckoutEvents ==
    {[session EXCEPT !.type = "checkout.session.completed"] : session \in Sessions}
SubscriptionEvents(type) ==
    {[NoEvent EXCEPT !.type = type, !.user_id = m, !.status = st,
                     !.items = b.items,
                     !.current_period_end = b.current_period_end] :
        m \in Metadata, st \in ProviderStatuses, b \in Billings}
UpdatedEvents == SubscriptionEvents("customer.subscription.updated")
DeletedEvents == SubscriptionEvents("customer.subscription.deleted")
OtherEvents == {[NoEvent EXCEPT !.type = "invoice.paid"]}
Events == CheckoutEvents \cup UpdatedEvents \cup DeletedEvents \cup OtherEvents

\* ObjectIDFromHex that accepts every string
ObjectIDFromHexLenient(h) ==
    [ok |-> TRUE, id |-> IF Len(h) = 2 THEN h[2] ELSE "u1"]

\* primitive.ObjectIDFromHex: the id, or an error for a string that is not
\* the hex form of an id
ObjectIDFromHex(h) ==
    IF Len(h) = 2 /\ h[1] = "hex" THEN [ok |-> TRUE, id |-> h[2]]
    ELSE [ok |-> FALSE, id |-> ""]

\* the Payment built from a session, with a status that is not final
PaymentOfPending(session, userID) ==
    [user_id |-> userID, gateway |-> "stripe", transaction_id |-> session.id,
     amount |-> session.amount, currency |-> session.currency, region |-> "",
     status |-> "pending"]

\* the models.Payment HandleStripeWebhook builds from a checkout session
PaymentOf(session, userID) ==
    [user_id |-> userID, gateway |-> "stripe", transaction_id |-> session.id,
     amount |-> session.amount, currency |-> session.currency, region |-> "",
     status |-> "completed"]

\* Create that skips a transaction id already recorded
CreatePaymentDedup(ps, payment) ==
    IF \E q \in BagToSet(ps) : q.transaction_id = payment.transaction_id
    THEN ps
    ELSE ps (+) SetToBag({payment})

\* PaymentRepository.Create: InsertOne; the store assigns a fresh _id, so
\* equal documents are stored side by side
CreatePayment(ps, payment) == ps (+) SetToBag({payment})

\* the subscription of an updated event with renewal switched on
UpdatedSubscriptionAutoRenew(sub) ==
    [ZeroSubscription EXCEPT !.status = sub.status,
                             !.plan = sub.items[1],
                             !.current_period_end = sub.current_period_end,
                             !.auto_renew = TRUE]

\* the models.Subscription built for customer.subscription.updated
UpdatedSubscription(sub) ==
    [ZeroSubscription EXCEPT !.status = sub.status,
                             !.plan = sub.items[1],
                             !.current_period_end = sub.current_period_end]

\* the subscription of a deleted event with the provider's status kept
CanceledSubscriptionVerbatim(sub) ==
    [ZeroSubscription EXCEPT !.status = sub.status,
                             !.plan = sub.items[1],
                             !.current_period_end = sub.current_period_end]

\* the models.Subscription built for customer.subscription.deleted
CanceledSubscription(sub) ==
    [ZeroSubscription EXCEPT !.status = "canceled",
                             !.plan = sub.items[1],
                             !.current_period_end = sub.current_period_end]

\* UpdateSubscription that extends the stored period instead of replacing it
UpdateSubscriptionExtend(us, userID, subscription) ==
    IF userID \notin DOMAIN us THEN us
    ELSE [us EXCEPT ![userID].subscription =
                [subscription EXCEPT !.current_period_end =
                    us[userID].subscription.current_period_end + @],
             ![userID].updated_at = "UpdateSubscription"]

\* PaymentRepository.UpdateSubscription: UpdateOne on users by _id with
\* $set of the whole embedded subscription and of updated_at; it matches
\* nothing, and returns nil, when no user has that id
UpdateSubscription(us, userID, subscription) ==
    IF userID \notin DOMAIN us THEN us
    ELSE [us EXCEPT ![userID].subscription = subscription,
                    ![userID].updated_at = "UpdateSubscription"]

\* a webhook that records a payment for every event it receives
WebhookResultRecordAll(us, ps, e) ==
    [response |-> "200", users |-> us,
     payments |-> CreatePayment(ps, PaymentOf(e, "u1"))]

\* HandleStripeWebhook after the signature check, on the collections us and
\* ps: the response and the collections it leaves. Indexing an empty item
\* list panics before any store call.
WebhookResult(us, ps, e) ==
    LET userID == ObjectIDFromHex(e.user_id)
        same == [response |-> "200", users |-> us, payments |-> ps]
        handled == e.type \in {"checkout.session.completed",
                               "customer.subscription.updated",
                               "customer.subscription.deleted"}
    IN  IF ~handled THEN same
        ELSE IF ~userID.ok THEN [same EXCEPT !.response = "400"]
        ELSE IF e.type = "checkout.session.completed"
        THEN [same EXCEPT !.payments = CreatePayment(ps, PaymentOf(e, userID.id))]
        ELSE IF e.items = <<>> THEN [same EXCEPT !.response = "panic"]
        ELSE IF e.type = "customer.subscription.updated"
        THEN [same EXCEPT !.users =
                UpdateSubscription(us, userID.id, UpdatedSubscription(e))]
        ELSE [same EXCEPT !.users =
                UpdateSubscription(us, userID.id, CanceledSubscription(e))]

\* what lastEvent keeps of a delivery or request: its type, who it is for
\* or from, the response, and the subscription document a request names
Delivered(e, response) ==
    [type |-> e.type, user_id |-> e.user_id, response |-> response, sub |-> 0]

HandleStripeWebhook(e) ==
    LET r == WebhookResult(users, payments, e)
    IN  /\ BagCardinality(r.payments) <= MaxPayments
        /\ users' = r.users
        /\ payments' = r.payments
        /\ lastEvent' = Delivered(e, r.response)
        /\ UNCHANGED <<subscriptions, otps, verifying, tokens>>

\* the code GenerateAndSaveOTP draws, and the names a request can carry
Codes == {"a1b2c3"}
Names == {"ann", "bob"}

\* UserRepository.GetByEmail: the id of the user with this email, "" if none
GetByEmail(us, email) ==
    IF \E u \in DOMAIN us : us[u].email = email
    THEN CHOOSE u \in DOMAIN us : us[u].email = email
    ELSE ""

\* GenerateAndSaveOTP, OTPRepository.Create: one more unused document
SaveOTP(os, email, code) ==
    [os EXCEPT ![email] = Append(@, [code |-> code, used |-> FALSE,
                                     expired |-> FALSE, verified |-> 0])]

\* HandleRegister: a new user document and its first OTP; for an email
\* that is registered and not verified only a new OTP; 409 for a verified one
HandleRegister(u, name, code) ==
    LET email == EmailOf[u]
        existing == GetByEmail(users, email)
        request == [NoEvent EXCEPT !.type = "register", !.user_id = HexOf(u)]
    IN  /\ IF existing # "" /\ users[existing].is_verified
           THEN /\ lastEvent' = Delivered(request, "409")
                /\ UNCHANGED <<users, otps>>
           ELSE /\ Len(otps[email]) < MaxOtps
                /\ otps' = SaveOTP(otps, email, code)
                /\ users' = IF existing # "" THEN users
                            ELSE [v \in DOMAIN users \cup {u} |->
                                    IF v = u
                                    THEN [NewUserDoc EXCEPT !.email = email,
                                                            !.name = name]
                                    ELSE users[v]]
                /\ lastEvent' = Delivered(request, "200")
        /\ UNCHANGED <<payments, subscriptions, verifying, tokens>>

\* a subscription created with a billing period that has not ended
NewSubscriptionWithPeriod(u, product, pm) ==
    [ZeroSubscription EXCEPT !.user_id = u, !.product_id = product,
                             !.status = "active", !.plan = "subscription",
                             !.payment_method_id = pm, !.auto_renew = TRUE,
                             !.current_period_end = 3]

\* the models.Subscription HandleCreateSubscription builds: the period
\* fields are left at their zero values
NewSubscription(u, product, pm) ==
    [ZeroSubscription EXCEPT !.user_id = u, !.product_id = product,
                             !.status = "active", !.plan = "subscription",
                             !.payment_method_id = pm, !.auto_renew = TRUE]

\* HandleCreateSubscription, SubscriptionRepository.Create: a document in
\* the subscriptions collection for the authenticated user
HandleCreateSubscription(u, product, pm) ==
    /\ u \in DOMAIN users
    /\ subscriptions' = Append(subscriptions, NewSubscription(u, product, pm))
    /\ lastEvent' = [Delivered([NoEvent EXCEPT !.type = "subscription.create",
                                               !.user_id = HexOf(u)], "201")
                        EXCEPT !.sub = Len(subscriptions) + 1]
    /\ UNCHANGED <<users, payments, otps, verifying, tokens>>

courseVars == <<courses, videos, lastOp, calls, scenario>>

InitPay ==
    /\ courses = [c \in {} |-> NewCourseDoc]
    /\ videos = {}
    /\ lastOp = NoOp
    /\ calls = NoCalls
    /\ scenario = ScenarioOff
    /\ NoBilling

NextPay ==
    \/ (\E e \in CheckoutEvents : HandleStripeWebhook(e)) /\ UNCHANGED courseVars
    \/ (\E e \in UpdatedEvents : HandleStripeWebhook(e)) /\ UNCHANGED courseVars
    \/ (\E e \in DeletedEvents : HandleStripeWebhook(e)) /\ UNCHANGED courseVars
    \/ (\E e \in OtherEvents : HandleStripeWebhook(e)) /\ UNCHANGED courseVars
    \/ (\E u \in UserIds \ DOMAIN users, code \in Codes :
            HandleRegister(u, "ann", code)) /\ UNCHANGED courseVars
    \/ (\E u \in UserIds, product \in ProductIds, pm \in PaymentMethods :
            /\ Len(subscriptions) < MaxSubscriptions
            /\ HandleCreateSubscription(u, product, pm)) /\ UNCHANGED courseVars

SpecPay == InitPay /\ [][NextPay]_vars

\* -------------------------------------------------------- subscriptions
\* The subscriptions collection. The _id of a document is its place in the
\* sequence; a request names a document by that id.
NewPaymentMethods == {"pm_1", "pm_2"}
Nows == {1, 2}

\* the *time.Time fields of models.Subscription the model keeps
PointerFields == {"last_payment_date", "next_billing_date"}
\* the fields UpdatePaymentInfo sets
PaymentInfoFields ==
    {"payment_method_id", "customer_id", "subscription_id",
     "last_payment_status", "last_payment_date", "next_billing_date"}

\* Decode of a stored document into models.Subscription: null reads as the
\* zero value
DecodeSubscription(doc) == [doc EXCEPT !.nulls = {}]

\* SubscriptionRepository.Update: UpdateOne by _id with $set of status,
\* plan, the period, cancel_at_period_end, the payment fields and
\* auto_renew from the struct (user_id and product_id are not in the $set);
\* a nil *time.Time is written as null
SubscriptionUpdate(subs, id, sub) ==
    IF id \notin DOMAIN subs THEN subs
    ELSE [subs EXCEPT ![id] =
            [sub EXCEPT !.user_id = subs[id].user_id,
                        !.product_id = subs[id].product_id,
                        !.nulls = {f \in PointerFields : sub[f] = 0}]]

\* SubscriptionRepository.UpdatePaymentInfo: UpdateOne by _id with $set of
\* the six payment fields to paymentInfo[field]; a key the map does not
\* hold gives nil, which is written as null. The handler passes a map
\* that holds payment_method_id only.
UpdatePaymentInfo(subs, id, paymentInfo) ==
    IF id \notin DOMAIN subs THEN subs
    ELSE [subs EXCEPT ![id].payment_method_id = paymentInfo.payment_method_id,
                      ![id].customer_id = "",
                      ![id].subscription_id = "",
                      ![id].last_payment_status = "",
                      ![id].last_payment_date = 0,
                      ![id].next_billing_date = 0,
                      ![id].nulls = (@ \ PaymentInfoFields)
                                       \cup (PaymentInfoFields \ DOMAIN paymentInfo)]

\* the documents GetActiveSubscription's filter matches
Entitled(subs, userID, now) ==
    {i \in DOMAIN subs : /\ subs[i].user_id = userID
                         /\ subs[i].status \in {"active", "trial"}
                         /\ subs[i].current_period_end > now}

\* SubscriptionRepository.GetActiveSubscription: FindOne with that filter,
\* the first match in the collection, 0 for no document
GetActiveSubscription(subs, userID, now) ==
    IF Entitled(subs, userID, now) = {} THEN 0
    ELSE CHOOSE i \in Entitled(subs, userID, now) :
            \A j \in Entitled(subs, userID, now) : i <= j

\* an ownership check that lets every caller through
OwnsAlways(sub, caller) == TRUE

\* the ownership check of the four handlers: subscription.UserID != userID
Owns(sub, caller) == sub.user_id = caller

\* the part the four handlers share: GetByID, which returns nil, nil for
\* no document (the handlers then dereference nil and panic), the ownership
\* check, and then the handler's own write
Guarded(subs, caller, id, written) ==
    IF id \notin DOMAIN subs
    THEN [response |-> "panic", subscriptions |-> subs]
    ELSE IF ~Owns(DecodeSubscription(subs[id]), caller)
    THEN [response |-> "403", subscriptions |-> subs]
    ELSE [response |-> "200", subscriptions |-> written]

GetResult(subs, caller, id) == Guarded(subs, caller, id, subs)

CancelResult(subs, caller, id) ==
    Guarded(subs, caller, id,
            SubscriptionUpdate(subs, id,
                [DecodeSubscription(subs[id]) EXCEPT
                    !.status = "canceled", !.cancel_at_period_end = TRUE]))

ReactivateResult(subs, caller, id) ==
    Guarded(subs, caller, id,
            SubscriptionUpdate(subs, id,
                [DecodeSubscription(subs[id]) EXCEPT
                    !.status = "active", !.cancel_at_period_end = FALSE]))

UpdatePaymentMethodResult(subs, caller, id, pm) ==
    Guarded(subs, caller, id,
            UpdatePaymentInfo(subs, id, [payment_method_id |-> pm]))

\* a request of an authenticated user on the subscription document id
SubscriptionRequest(type, caller, id, r) ==
    /\ caller \in DOMAIN users
    /\ subscriptions' = r.subscriptions
    /\ lastEvent' = [type |-> type, user_id |-> HexOf(caller),
                     response |-> r.response, sub |-> id]
    /\ UNCHANGED <<users, payments, otps, verifying, tokens>>

HandleGetSubscription(caller, id) ==
    SubscriptionRequest("subscription.get", caller, id,
                        GetResult(subscriptions, caller, id))

HandleCancelSubscription(caller, id) ==
    SubscriptionRequest("subscription.cancel", caller, id,
                        CancelResult(subscriptions, caller, id))

HandleReactivateSubscription(caller, id) ==
    SubscriptionRequest("subscription.reactivate", caller, id,
                        ReactivateResult(subscriptions, caller, id))

HandleUpdatePaymentMethod(caller, id, pm) ==
    SubscriptionRequest("subscription.payment_method", caller, id,
                        UpdatePaymentMethodResult(subscriptions, caller, id, pm))

\* The subscription requests of registered users on one collection.
InitOwner == Init

NextOwner ==
    \/ (\E u \in UserIds \ DOMAIN users, code \in Codes :
            HandleRegister(u, "ann", code)) /\ UNCHANGED courseVars
    \/ (\E u \in UserIds, product \in ProductIds, pm \in PaymentMethods :
            /\ Len(subscriptions) < MaxSubscriptions
            /\ HandleCreateSubscription(u, product, pm)) /\ UNCHANGED courseVars
    \/ (\E u \in UserIds, id \in 1..MaxSubscriptions :
            HandleGetSubscription(u, id)) /\ UNCHANGED courseVars
    \/ (\E u \in UserIds, id \in 1..MaxSubscriptions :
            HandleCancelSubscription(u, id)) /\ UNCHANGED courseVars
    \/ (\E u \in UserIds, id \in 1..MaxSubscriptions :
            HandleReactivateSubscription(u, id)) /\ UNCHANGED courseVars
    \/ (\E u \in UserIds, id \in 1..MaxSubscriptions, pm \in NewPaymentMethods :
            HandleUpdatePaymentMethod(u, id, pm)) /\ UNCHANGED courseVars

SpecOwner == InitOwner /\ [][NextOwner]_vars

\* Subscriptions of several per user, with the provider's subscription
\* events of stored users.
EntitleEvents ==
    {e \in UpdatedEvents \cup DeletedEvents :
        /\ e.user_id \in {HexOf(u) : u \in UserIds}
        /\ e.items = <<"month">>
        /\ e.status = "active"}

InitEntitle == Init

NextEntitle ==
    \/ (\E u \in UserIds \ DOMAIN users, code \in Codes :
            HandleRegister(u, "ann", code)) /\ UNCHANGED courseVars
    \/ (\E u \in UserIds, product \in ProductIds, pm \in PaymentMethods :
            /\ Len(subscriptions) < MaxUserSubscriptions
            /\ HandleCreateSubscription(u, product, pm)) /\ UNCHANGED courseVars
    \/ (\E u \in UserIds, id \in 1..MaxUserSubscriptions :
            HandleCancelSubscription(u, id)) /\ UNCHANGED courseVars
    \/ (\E u \in UserIds, id \in 1..MaxUserSubscriptions :
            HandleReactivateSubscription(u, id)) /\ UNCHANGED courseVars
    \/ (\E e \in EntitleEvents : HandleStripeWebhook(e)) /\ UNCHANGED courseVars

SpecEntitle == InitEntitle /\ [][NextEntitle]_vars

\* ------------------------------------------------------------- accounts
\* the codes a verification request can carry: the generated one and a
\* wrong one
RequestCodes == Codes \cup {"000000"}

\* UserRepository.Update: UpdateOne by _id with $set of email, role,
\* is_verified, subscription, blocked and updated_at from the struct; name
\* is not in the $set; no document with that _id is a silent no-op
UserUpdate(us, id, user) ==
    IF id \notin DOMAIN us THEN us
    ELSE [us EXCEPT ![id].email = user.email,
                    ![id].role = user.role,
                    ![id].is_verified = user.is_verified,
                    ![id].subscription = user.subscription,
                    ![id].blocked = user.blocked,
                    ![id].updated_at = "Update"]

\* OTPRepository.GetLatestOTP: the newest OTP of the email that is neither
\* used nor expired, 0 for none
GetLatestOTP(os, email) ==
    LET valid == {i \in DOMAIN os[email] :
                     ~os[email][i].used /\ ~os[email][i].expired}
    IN  IF valid = {} THEN 0
        ELSE CHOOSE i \in valid : \A j \in valid : j <= i

\* OTPRepository.MarkAsUsed: $set used = true by _id, whatever used was
MarkAsUsed(os, email, i) == [os EXCEPT ![email][i].used = TRUE]

\* time passes: the oldest OTP of an email that has not expired does
ExpireOTP(email) ==
    /\ \E i \in DOMAIN otps[email] :
          /\ ~otps[email][i].expired
          /\ \A j \in 1..(i - 1) : otps[email][j].expired
          /\ otps' = [otps EXCEPT ![email][i].expired = TRUE]
    /\ UNCHANGED <<users, payments, subscriptions, lastEvent, verifying, tokens>>

\* HandleVerifyOTP, first step: GetLatestOTP and the comparison of the code
VerifyGetOTP(p, email, code) ==
    /\ verifying[p].pc = "idle"
    /\ LET i == GetLatestOTP(otps, email)
           request == [IdleVerify EXCEPT !.email = email, !.code = code]
       IN  verifying' = [verifying EXCEPT ![p] =
              IF i = 0 \/ otps[email][i].code # code
              THEN [request EXCEPT !.pc = "done", !.response = "400"]
              ELSE [request EXCEPT !.pc = "mark", !.otp = i]]
    /\ UNCHANGED <<users, payments, subscriptions, lastEvent, otps, tokens>>

\* HandleVerifyOTP, second step: MarkAsUsed(otp.ID)
VerifyMark(p) ==
    /\ verifying[p].pc = "mark"
    /\ otps' = MarkAsUsed(otps, verifying[p].email, verifying[p].otp)
    /\ verifying' = [verifying EXCEPT ![p].pc = "user"]
    /\ UNCHANGED <<users, payments, subscriptions, lastEvent, tokens>>

\* HandleVerifyOTP, third step: GetByEmail, 404 for no user
VerifyGetUser(p) ==
    /\ verifying[p].pc = "user"
    /\ LET u == GetByEmail(users, verifying[p].email)
       IN  verifying' = [verifying EXCEPT ![p] =
              IF u = ""
              THEN [@ EXCEPT !.pc = "done", !.response = "404"]
              ELSE [@ EXCEPT !.pc = "update", !.user = u, !.doc = users[u]]]
    /\ UNCHANGED <<users, payments, subscriptions, lastEvent, otps, tokens>>

\* HandleVerifyOTP, last step: user.IsVerified = true, UserRepository.Update
\* of the user read in the third step, 200. verified counts the
\* verifications that succeeded with the OTP.
VerifyUpdate(p) ==
    /\ verifying[p].pc = "update"
    /\ users' = UserUpdate(users, verifying[p].user,
                           [verifying[p].doc EXCEPT !.is_verified = TRUE])
    /\ otps' = [otps EXCEPT ![verifying[p].email][verifying[p].otp].verified = @ + 1]
    /\ verifying' = [verifying EXCEPT ![p].pc = "done", ![p].response = "200"]
    /\ UNCHANGED <<payments, subscriptions, lastEvent, tokens>>

\* the response has been sent
VerifyReturn(p) ==
    /\ verifying[p].pc = "done"
    /\ verifying' = [verifying EXCEPT ![p] = IdleVerify]
    /\ UNCHANGED <<users, payments, subscriptions, lastEvent, otps, tokens>>

HandleVerifyOTP(p) ==
    \/ \E email \in Emails, code \in RequestCodes : VerifyGetOTP(p, email, code)
    \/ VerifyMark(p)
    \/ VerifyGetUser(p)
    \/ VerifyUpdate(p)
    \/ VerifyReturn(p)

\* generateToken: the claims of a token for the user
ClaimsOf(us, u) == [user_id |-> u, email |-> us[u].email, role |-> us[u].role]

\* HandleLogin: 403 for an account that is not verified or is blocked,
\* otherwise a token with the user's id, email and role
HandleLogin(u) ==
    /\ u \in DOMAIN users
    /\ IF ~users[u].is_verified \/ users[u].blocked
       THEN /\ lastEvent' = [type |-> "login", user_id |-> HexOf(u),
                             response |-> "403", sub |-> 0]
            /\ UNCHANGED tokens
       ELSE /\ lastEvent' = [type |-> "login", user_id |-> HexOf(u),
                             response |-> "200", sub |-> 0]
            /\ tokens' = tokens \cup {ClaimsOf(users, u)}
    /\ UNCHANGED <<users, payments, subscriptions, otps, verifying>>

\* GetUserFromContext: a models.User with the ID, Email and Role of the
\* claims and the zero value in every other field
GetUserFromContext(claims) ==
    [subscription |-> ZeroSubscription, updated_at |-> "",
     email |-> claims.email, name |-> "", role |-> claims.role,
     is_verified |-> FALSE, blocked |-> FALSE]

\* HandleUpdateCurrentUser: 403 for an empty name (or one over 50 bytes),
\* otherwise user.Name = name on the user of the claims and
\* UserRepository.Update of that user
UpdateCurrentUserResult(us, claims, name) ==
    IF name = ""
    THEN [response |-> "403", users |-> us]
    ELSE [response |-> "200",
          users |-> UserUpdate(us, claims.user_id,
                               [GetUserFromContext(claims) EXCEPT !.name = name])]

HandleUpdateCurrentUser(claims, name) ==
    /\ claims \in tokens
    /\ LET r == UpdateCurrentUserResult(users, claims, name)
       IN  /\ users' = r.users
           /\ lastEvent' = [type |-> "user.update", user_id |-> HexOf(claims.user_id),
                            response |-> r.response, sub |-> 0]
    /\ UNCHANGED <<payments, subscriptions, otps, verifying, tokens>>

\* Registration and verification of one account with two requests in
\* flight.
InitOtp == Init

NextOtp ==
    \/ (\E code \in Codes : HandleRegister("u1", "ann", code)) /\ UNCHANGED courseVars
    \/ (\E email \in Emails : ExpireOTP(email)) /\ UNCHANGED courseVars
    \/ (\E p \in Procs : HandleVerifyOTP(p)) /\ UNCHANGED courseVars

SpecOtp == InitOtp /\ [][NextOtp]_vars

\* An account from registration to the profile update, with the provider's
\* subscription events between.
UserEvents ==
    {e \in UpdatedEvents \cup DeletedEvents :
        /\ e.user_id = HexOf("u1")
        /\ e.items = <<"month">>
        /\ e.status = "active"
        /\ e.current_period_end = 1}

InitUser == Init

NextUser ==
    \/ (\E code \in Codes : HandleRegister("u1", "ann", code)) /\ UNCHANGED courseVars
    \/ HandleVerifyOTP("p1") /\ UNCHANGED courseVars
    \/ HandleLogin("u1") /\ UNCHANGED courseVars
    \/ (\E e \in UserEvents : HandleStripeWebhook(e)) /\ UNCHANGED courseVars
    \/ (\E claims \in tokens, name \in Names \cup {""} :
            HandleUpdateCurrentUser(claims, name)) /\ UNCHANGED courseVars

SpecUser == InitUser /\ [][NextUser]_vars

\* ----------------------------------------------------------------- claims
\* what the last call was
Did(op) == lastOp.op = op /\ lastOp.existed

\* the stored video_order of the course the last call addressed
After == OrderOf(lastOp.course)
AfterDoc == courses[lastOp.course].video_order

\* C1: AddVideoToCourse on an existing course with n videos and a position p,
\* 0 <= p <= n, succeeds and the stored order has n+1 elements: videoId at
\* index p, the former elements 0..p-1 before it unchanged and the former
\* elements p..n-1 after it, shifted right by one.
C1_InsertAtPosition ==
    (Did("AddVideoToCourse") /\ 0 <= lastOp.position
                             /\ lastOp.position <= Len(lastOp.before))
    => LET p == lastOp.position
           n == Len(lastOp.before)
       IN  /\ lastOp.err = NoErr
           /\ Len(After) = n + 1
           /\ After[p + 1] = lastOp.video
           /\ \A i \in 1..p : After[i] = lastOp.before[i]
           /\ \A i \in (p + 1)..n : After[i + 1] = lastOp.before[i]
           /\ DropAt(After, p + 1) = lastOp.before

\* an insertion strictly inside a list of two distinct ids
C1_Witness ==
    /\ Did("AddVideoToCourse") /\ lastOp.err = NoErr
    /\ Len(lastOp.before) = 2 /\ lastOp.position = 1
    /\ lastOp.before[1] # lastOp.before[2]
    /\ After = <<lastOp.before[1], lastOp.video, lastOp.before[2]>>

\* C2: ReorderVideos on an existing course succeeds iff every id of newOrder
\* is in the current order, and then the stored order is exactly newOrder.
C2_ReorderIffSubset ==
    Did("ReorderVideos")
    => /\ (lastOp.err = NoErr) <=> (Range(lastOp.newOrder) \subseteq Range(lastOp.before))
       /\ lastOp.err = NoErr => After = lastOp.newOrder /\ lastOp.wrote

\* a reorder that succeeded although it left out an id of the course
C2_Witness ==
    /\ Did("ReorderVideos") /\ lastOp.err = NoErr
    /\ Len(lastOp.before) = 3
    /\ Len(lastOp.newOrder) = 2
    /\ Range(lastOp.before) \ Range(lastOp.newOrder) # {}
    /\ After = lastOp.newOrder

\* C3: RemoveVideoFromCourse on an existing course whose order holds videoId
\* exactly once succeeds and leaves the n-1 other ids in their original
\* relative order; for n = 1 the course then reads as one with no videos.
C3_RemoveOnce ==
    (Did("RemoveVideoFromCourse") /\ Count(lastOp.before, lastOp.video) = 1)
    => /\ lastOp.err = NoErr
       /\ Len(After) = Len(lastOp.before) - 1
       /\ \E i \in 1..Len(lastOp.before) :
             /\ lastOp.before[i] = lastOp.video
             /\ After = DropAt(lastOp.before, i)
       /\ Len(lastOp.before) = 1 =>
             /\ After = <<>>
             /\ \A v \in VideoIds : RemoveResult(After, v).err = ErrNoVideos

\* a removal from the middle of a three-element list that holds the id once
C3_Witness ==
    /\ Did("RemoveVideoFromCourse") /\ lastOp.err = NoErr
    /\ Len(lastOp.before) = 3
    /\ Count(lastOp.before, lastOp.video) = 1
    /\ lastOp.before[2] = lastOp.video
    /\ After = <<lastOp.before[1], lastOp.before[3]>>

\* C4: GetVideosInOrder on an existing course whose ids all resolve returns
\* one record per element of the order, the i-th being the video with id
\* videoOrder[i]; on an empty order it returns no records and no error.
C4_ResolveInOrder ==
    ((Did("GetVideosInOrder") \/ Did("HandleGetCourse"))
        /\ Range(lastOp.before) \subseteq videos)
    => /\ lastOp.err = IF lastOp.op = "GetVideosInOrder" THEN NoErr ELSE "200"
       /\ Len(lastOp.result) = Len(lastOp.before)
       /\ \A i \in 1..Len(lastOp.before) :
             lastOp.result[i] = VideoDoc(lastOp.before[i])

\* videos resolved in an order that is not the store's id order
C4_Witness ==
    /\ Did("GetVideosInOrder") /\ lastOp.err = NoErr
    /\ lastOp.before = <<2, 1, 2>>
    /\ lastOp.result = <<VideoDoc(2), VideoDoc(1), VideoDoc(2)>>

\* C5: no video id appears twice in a course's video order.
C5_Uniqueness ==
    \A c \in DOMAIN courses :
        \A i, j \in 1..Len(OrderOf(c)) :
            i # j => OrderOf(c)[i] # OrderOf(c)[j]

\* C6: AddVideoToCourse with a position below 0 or above the current length
\* fails with "invalid position" and leaves the stored order unchanged.
C6_InvalidPosition ==
    (Did("AddVideoToCourse")
        /\ (lastOp.position < 0 \/ lastOp.position > Len(lastOp.before)))
    => /\ lastOp.err = ErrInvalidPosition
       /\ ~lastOp.wrote
       /\ AfterDoc = lastOp.beforeDoc

\* a position one past the end of a non-empty list was rejected
C6_Witness ==
    /\ Did("AddVideoToCourse") /\ lastOp.err = ErrInvalidPosition
    /\ Len(lastOp.before) = 2
    /\ lastOp.position = 3
    /\ After = lastOp.before

\* C7: ReorderVideos with at least one id that is not in the current order
\* fails with "invalid video ID in new order" and leaves the stored order
\* as it was, whatever the other ids of newOrder are.
C7_ReorderRejected ==
    (Did("ReorderVideos")
        /\ \E i \in 1..Len(lastOp.newOrder) :
              lastOp.newOrder[i] \notin Range(lastOp.before))
    => /\ lastOp.err = ErrInvalidVideoID
       /\ ~lastOp.wrote
       /\ AfterDoc = lastOp.beforeDoc

\* a rejected reorder whose first ids are valid and whose last one is not
C7_Witness ==
    /\ Did("ReorderVideos") /\ lastOp.err = ErrInvalidVideoID
    /\ Len(lastOp.before) = 2 /\ Len(lastOp.newOrder) = 3
    /\ lastOp.newOrder[1] = lastOp.before[2]
    /\ lastOp.newOrder[2] = lastOp.before[1]
    /\ lastOp.newOrder[3] \notin Range(lastOp.before)
    /\ After = lastOp.before

\* C8: RemoveVideoFromCourse on an existing course with an empty order fails
\* with "Course not having any videos" and writes nothing.
C8_RemoveFromEmpty ==
    (Did("RemoveVideoFromCourse") /\ Len(lastOp.before) = 0)
    => /\ lastOp.err = ErrNoVideos
       /\ ~lastOp.wrote
       /\ AfterDoc = lastOp.beforeDoc

\* a removal rejected on a course whose last video had been removed before
\* (its video_order is stored as null)
C8_Witness ==
    /\ Did("RemoveVideoFromCourse") /\ lastOp.err = ErrNoVideos
    /\ lastOp.beforeDoc.isNull
    /\ AfterDoc.isNull

\* C9: RemoveVideoFromCourse of an id that is not in a non-empty order
\* succeeds and the stored order afterwards equals the order before.
C9_RemoveAbsent ==
    (Did("RemoveVideoFromCourse") /\ Len(lastOp.before) > 0
        /\ lastOp.video \notin Range(lastOp.before))
    => /\ lastOp.err = NoErr
       /\ After = lastOp.before
       /\ AfterDoc = lastOp.beforeDoc

\* an absent id removed from a one-element list, which stays as it was
C9_Witness ==
    /\ Did("RemoveVideoFromCourse") /\ lastOp.err = NoErr /\ lastOp.wrote
    /\ Len(lastOp.before) = 1
    /\ lastOp.video # lastOp.before[1]
    /\ After = lastOp.before

\* C10: if any id of the order does not resolve to a stored video,
\* GetVideosInOrder fails with "video not found" and returns no records,
\* even when other ids of the order do resolve.
C10_ResolveAllOrNothing ==
    /\ (Did("GetVideosInOrder") /\ ~(Range(lastOp.before) \subseteq videos))
       => lastOp.err = ErrVideoNotFound /\ lastOp.result = <<>>
    /\ (Did("HandleGetCourse") /\ ~(Range(lastOp.before) \subseteq videos))
       => lastOp.err = "500" /\ lastOp.result = <<>>

\* the call failed on the last id after the first two had resolved
C10_Witness ==
    /\ Did("GetVideosInOrder") /\ lastOp.err = ErrVideoNotFound
    /\ Len(lastOp.before) = 3
    /\ lastOp.before[1] \in videos /\ lastOp.before[2] \in videos
    /\ lastOp.before[3] \notin videos
    /\ lastOp.result = <<>>

\* the four ordering operations of CourseRepository
OrderingOps == {"AddVideoToCourse", "ReorderVideos", "RemoveVideoFromCourse",
                "GetVideosInOrder"}

\* C11: AddVideoToCourse, ReorderVideos, RemoveVideoFromCourse and
\* GetVideosInOrder on a course id without a stored course fail with
\* "course not found"; none of them creates the course or writes a document.
C11_CourseNotFound ==
    (lastOp.op \in OrderingOps /\ ~lastOp.existed)
    => /\ lastOp.err = ErrCourseNotFound
       /\ ~lastOp.wrote
       /\ lastOp.result = <<>>
       /\ ~CourseExists(lastOp.course)
       /\ DOMAIN courses \subseteq CourseIds \ {lastOp.course}

\* a removal addressed to a course id that has no document
C11_Witness ==
    /\ lastOp.op = "RemoveVideoFromCourse" /\ ~lastOp.existed
    /\ lastOp.err = ErrCourseNotFound
    /\ ~CourseExists(lastOp.course)

\* the index of the first occurrence of v in s (v occurs in s)
FirstIndex(s, v) ==
    CHOOSE i \in 1..Len(s) : s[i] = v /\ \A j \in 1..(i - 1) : s[j] # v

\* C12: RemoveVideoFromCourse of an id that occurs k >= 1 times removes its
\* first occurrence only: the stored order has exactly one element fewer
\* and the remaining elements keep their relative order.
C12_RemoveFirstOnly ==
    (Did("RemoveVideoFromCourse") /\ Count(lastOp.before, lastOp.video) >= 1)
    => /\ lastOp.err = NoErr
       /\ Len(After) = Len(lastOp.before) - 1
       /\ After = DropAt(lastOp.before, FirstIndex(lastOp.before, lastOp.video))

\* C15 as stated: on a course that starts with [A, B], InsertAt(C, 1) gives
\* [A, C, B], Remove(A) gives [C, B], Reorder([B, C]) gives [B, C], then
\* Reorder([B, Z]) fails with "invalid video ID in new order" and the list
\* remains [C, B].
C15_ScenarioAsStated ==
    /\ scenario = 1 => lastOp.err = NoErr /\ After = <<1, 3, 2>>
    /\ scenario = 2 => lastOp.err = NoErr /\ After = <<3, 2>>
    /\ scenario = 3 => lastOp.err = NoErr /\ After = <<2, 3>>
    /\ scenario = 4 => lastOp.err = ErrInvalidVideoID /\ After = <<3, 2>>

\* C15 amended: the same calls and results, and after the failed
\* Reorder([B, Z]) the list remains [B, C], the order the preceding
\* Reorder([B, C]) stored.
C15_Scenario ==
    /\ scenario = 1 => lastOp.err = NoErr /\ After = <<1, 3, 2>>
    /\ scenario = 2 => lastOp.err = NoErr /\ After = <<3, 2>>
    /\ scenario = 3 => lastOp.err = NoErr /\ After = <<2, 3>>
    /\ scenario = 4 => /\ lastOp.err = ErrInvalidVideoID
                       /\ ~lastOp.wrote
                       /\ After = <<2, 3>>

\* the four calls of the script have been made, the last one rejected
C15_Witness ==
    /\ scenario = 4
    /\ lastOp.op = "ReorderVideos" /\ lastOp.newOrder = <<2, 4>>
    /\ lastOp.err = ErrInvalidVideoID

\* the request that wrote last after both had read, and the other one
LaterWriter(q, f) ==
    /\ q # f
    /\ calls[q].pc = "done" /\ calls[q].wrote /\ calls[q].stale
    /\ calls[f].pc = "done" /\ calls[f].wrote
    /\ calls[q].op # "UpdateCourse" /\ calls[f].op # "UpdateCourse"

\* C13: when two video_order mutations of one course both read before either
\* writes, both report success and the stored order is the result the later
\* writer computed from its own read; the change of the earlier writer (for
\* two insertions, the id it inserted) is not in the stored order.
C13_LostUpdate ==
    \A q, f \in Procs :
        LaterWriter(q, f)
        => /\ calls[q].err = NoErr /\ calls[f].err = NoErr
           /\ calls[q].read = calls[f].read
           /\ courses[calls[q].course].video_order
                 = EncodeOrder(Computed(calls[q], [VideoOrder |-> Slice(calls[q].read)]).order)
           /\ (/\ calls[q].op = "AddVideoToCourse" /\ calls[f].op = "AddVideoToCourse"
               /\ calls[f].video # calls[q].video
               /\ calls[f].video \notin Range(calls[f].read))
              => calls[f].video \notin Range(OrderOf(calls[q].course))

\* two insertions of different new ids raced: both succeeded, the stored
\* order holds the id of the later writer and not the id of the earlier one
C13_Witness ==
    \E q, f \in Procs :
        /\ LaterWriter(q, f)
        /\ calls[q].op = "AddVideoToCourse" /\ calls[f].op = "AddVideoToCourse"
        /\ calls[q].err = NoErr /\ calls[f].err = NoErr
        /\ calls[f].video # calls[q].video
        /\ calls[q].read = <<>>
        /\ OrderOf(calls[q].course) = <<calls[q].video>>

\* C14: the UpdateOne of a course-metadata update (HandleUpdateCourse, then
\* CourseRepository.Update) leaves the stored video_order equal to its value
\* immediately before that write, in every interleaving of requests.
C14_MetadataKeepsOrder ==
    \A p \in Procs :
        (calls[p].op = "UpdateCourse" /\ calls[p].wrote)
        => calls[p].docAfter = calls[p].docBefore

\* the last step was a delivery of an event of this type, answered 200
Processed(type) == lastEvent.type = type /\ lastEvent.response = "200"

\* C16: every delivery of a checkout.session.completed event whose customer
\* metadata resolves to user U adds exactly one payment document, with
\* user_id U, status completed and the amount and currency of the event,
\* and leaves the users collection (the embedded subscriptions) and the
\* subscriptions collection as they were.
C16_CheckoutCreatesPayment ==
    [][Processed("checkout.session.completed")'
       => \E e \in CheckoutEvents, U \in UserIds, p \in BagToSet(payments') :
            /\ e.user_id = lastEvent'.user_id /\ e.user_id = HexOf(U)
            /\ payments' = payments (+) SetToBag({p})
            /\ p.user_id = U /\ p.status = "completed"
            /\ p.amount = e.amount /\ p.currency = e.currency
            /\ users' = users
            /\ subscriptions' = subscriptions]_vars

\* a checkout was processed while a user had a subscription from a webhook
\* and a subscription document existed: the payment is there, they are too
C16_Witness ==
    /\ Processed("checkout.session.completed")
    /\ \E p \in BagToSet(payments) :
          HexOf(p.user_id) = lastEvent.user_id /\ p.status = "completed"
    /\ \E u \in DOMAIN users : users[u].subscription.status = "active"
    /\ subscriptions # <<>>

\* the payment documents that carry a transaction id
WithTransaction(ps, id) ==
    LET hits == {p \in BagToSet(ps) : p.transaction_id = id}
        Sum[S \in SUBSET hits] ==
            IF S = {} THEN 0
            ELSE LET p == CHOOSE q \in S : TRUE
                 IN  CopiesIn(p, ps) + Sum[S \ {p}]
    IN  Sum[hits]

\* C17: checkout events are not deduplicated: each delivery of a checkout
\* event is answered 200 and adds one payment document with the event's
\* transaction id to those already stored with that id, so k deliveries of
\* one event leave k such documents.
C17_NoDedup ==
    [][(lastEvent'.type = "checkout.session.completed"
        /\ \E U \in UserIds : lastEvent'.user_id = HexOf(U))
       => /\ lastEvent'.response = "200"
          /\ \E e \in CheckoutEvents :
               /\ e.user_id = lastEvent'.user_id
               /\ WithTransaction(payments', e.id)
                     = WithTransaction(payments, e.id) + 1]_vars

\* one event was delivered twice: two equal payment documents are stored
C17_Witness ==
    /\ Processed("checkout.session.completed")
    /\ \E p \in BagToSet(payments) :
          /\ HexOf(p.user_id) = lastEvent.user_id
          /\ CopiesIn(p, payments) = 2
          /\ WithTransaction(payments, p.transaction_id) = 2

\* C18: in every reachable state and for every customer.subscription.updated
\* event, handling the event twice in a row leaves the same users collection
\* (every field of every embedded subscription) and the same response as
\* handling it once.
C18_UpdatedIdempotent ==
    \A e \in UpdatedEvents :
        LET once == WebhookResult(users, payments, e)
            twice == WebhookResult(once.users, once.payments, e)
        IN  /\ twice.users = once.users
            /\ twice.payments = once.payments
            /\ twice.response = once.response

\* an updated event was processed for a registered user and changed the
\* stored subscription; handling it again changes nothing
C18_Witness ==
    /\ Processed("customer.subscription.updated")
    /\ \E u \in DOMAIN users, e \in UpdatedEvents :
          /\ e.user_id = HexOf(u) /\ lastEvent.user_id = HexOf(u)
          /\ e.items # <<>>
          /\ users[u].subscription = UpdatedSubscription(e)
          /\ WebhookResult(users, payments, e).users = users

\* C19: in every reachable state, handling a customer.subscription.deleted
\* event for a stored user U (the event carrying a billing item) is answered
\* 200 and leaves U's subscription with status canceled, whatever the
\* payload status and the prior status, and with the plan and the
\* current_period_end of the payload.
C19_DeletedCancels ==
    \A e \in DeletedEvents, U \in DOMAIN users :
        (e.user_id = HexOf(U) /\ e.items # <<>>)
        => LET r == WebhookResult(users, payments, e)
           IN  /\ r.response = "200"
               /\ r.users[U].subscription.status = "canceled"
               /\ r.users[U].subscription.plan = e.items[1]
               /\ r.users[U].subscription.current_period_end
                     = e.current_period_end

\* a deleted event was processed for a registered user: the stored status
\* is canceled and the plan is one the payload carried
C19_Witness ==
    /\ Processed("customer.subscription.deleted")
    /\ \E u \in DOMAIN users :
          /\ lastEvent.user_id = HexOf(u)
          /\ users[u].subscription.status = "canceled"
          /\ users[u].subscription.plan = "year"
          /\ users[u].subscription.current_period_end = 2

\* the statuses the specification allows
SpecStatuses == {"active", "trial", "canceled", "expired"}

\* C20: in every reachable state every subscription status written by a
\* webhook event or by HandleCreateSubscription is one of active, trial,
\* canceled, expired.
C20_StatusInSet ==
    /\ \A u \in DOMAIN users :
          users[u].updated_at = "UpdateSubscription"
          => users[u].subscription.status \in SpecStatuses
    /\ \A i \in DOMAIN subscriptions : subscriptions[i].status \in SpecStatuses

\* the event types HandleStripeWebhook has a case for
HandledTypes == {"checkout.session.completed", "customer.subscription.updated",
                 "customer.subscription.deleted"}

\* C21: every delivery of an event of one of the three handled kinds whose
\* customer metadata holds no valid user id (key missing, or not an id) is
\* answered with the error 400, and it creates no payment and changes no
\* user, no embedded subscription and no subscription document; the handler
\* makes no second attempt.
C21_UnresolvedRejected ==
    [][(lastEvent'.type \in HandledTypes
        /\ lastEvent'.user_id \notin {HexOf(u) : u \in UserIds})
       => /\ lastEvent'.response = "400"
          /\ payments' = payments
          /\ users' = users
          /\ subscriptions' = subscriptions]_vars

\* a deleted event without a user id was rejected while a user held a
\* subscription written by a webhook and a payment was stored
C21_Witness ==
    /\ lastEvent.type = "customer.subscription.deleted"
    /\ lastEvent.user_id = MissingKey
    /\ lastEvent.response = "400"
    /\ payments # EmptyBag
    /\ \E u \in DOMAIN users : users[u].subscription.status = "active"

\* C23: every id in the video_order of a stored course is the id of a stored
\* video, in every state reached by creating and deleting videos and by
\* AddVideoToCourse, ReorderVideos and RemoveVideoFromCourse; so
\* GetVideosInOrder on a stored course never fails with "video not found".
C23_ReferentialIntegrity ==
    /\ \A c \in DOMAIN courses : Range(OrderOf(c)) \subseteq videos
    /\ Did("GetVideosInOrder") => lastOp.err # ErrVideoNotFound

\* the fields of a subscription that a subscription event has no value for
Linkage(sub) ==
    [cancel_at_period_end |-> sub.cancel_at_period_end,
     auto_renew |-> sub.auto_renew,
     payment_method_id |-> sub.payment_method_id,
     customer_id |-> sub.customer_id,
     subscription_id |-> sub.subscription_id,
     user_id |-> sub.user_id,
     product_id |-> sub.product_id]

C26_OtherEventsIgnored ==
    [][lastEvent'.type \in {e.type : e \in OtherEvents}
       => /\ lastEvent'.response = "200"
          /\ payments' = payments
          /\ users' = users
          /\ subscriptions' = subscriptions]_vars

\* an event of another type was acknowledged while payments and a
\* subscription written by a webhook were stored
C26_Witness ==
    /\ lastEvent.type \notin HandledTypes
    /\ lastEvent.type \in {e.type : e \in OtherEvents}
    /\ lastEvent.response = "200"
    /\ payments # EmptyBag
    /\ \E u \in DOMAIN users : users[u].subscription.status = "canceled"

Stored(doc, f) == [null |-> f \in doc.nulls, value |-> doc[f]]

OwnerOps ==
    {"subscription.get", "subscription.cancel",
     "subscription.reactivate", "subscription.payment_method"}

ProfileFrame == {"subscription", "is_verified", "blocked", "role", "email"}

\* C28: PUT /users/me with a valid name leaves the stored subscription,
\* is_verified, blocked, role and email of the caller as they were, so a
\* subscription written by a webhook event survives a profile update.
C28_ProfileFrame ==
    \A claims \in tokens, name \in Names :
        claims.user_id \in DOMAIN users
           => LET r == UpdateCurrentUserResult(users, claims, name)
              IN  /\ r.response = "200"
                  /\ \A f \in ProfileFrame :
                        r.users[claims.user_id][f] = users[claims.user_id][f]

\* C30: with every stored OTP at most one verification succeeds, whatever
\* the interleaving of the HandleVerifyOTP requests.
C30_SingleUse ==
    \A email \in Emails : \A i \in DOMAIN otps[email] :
        otps[email][i].verified <= 1

====
